---- MODULE Spec2Model ----
(***************************************************************************)
(* Model of the product REST API: the application assembly of server.ts    *)
(* (connectDB, the CORS policy, the global middleware order) and the       *)
(* route table of router.ts (validation chains, handleInputErrors,         *)
(* handler per route).  Strings that validators inspect are sequences of   *)
(* one-character strings so that the validators' patterns are computed.    *)
(***************************************************************************)
EXTENDS Integers, Sequences, FiniteSets, TLC

\* Largest number of products the store ever assigns an id to.
MaxProducts == 2

VARIABLES frontendUrl, proc, dbFailure, dbReady, logged,
          store, nextId, req, res, calls

vars == <<frontendUrl, proc, dbFailure, dbReady, logged,
          store, nextId, req, res, calls>>

-----------------------------------------------------------------------------
(* JSON / JavaScript values as they arrive in a request.                   *)

JsUndefined == [t |-> "undefined", n |-> 0, s |-> <<>>]
JsNum(k) == [t |-> "number", n |-> k, s |-> <<>>]
JsStr(cs) == [t |-> "string", n |-> 0, s |-> cs]
JsBool(b) == [t |-> "boolean", n |-> IF b THEN 1 ELSE 0, s |-> <<>>]

Digit == {"0", "1", "2", "3", "4", "5", "6", "7", "8", "9"}

DigitVal(c) ==
  CASE c = "0" -> 0 [] c = "1" -> 1 [] c = "2" -> 2 [] c = "3" -> 3
    [] c = "4" -> 4 [] c = "5" -> 5 [] c = "6" -> 6 [] c = "7" -> 7
    [] c = "8" -> 8 [] c = "9" -> 9

DigitChar(d) ==
  CASE d = 0 -> "0" [] d = 1 -> "1" [] d = 2 -> "2" [] d = 3 -> "3"
    [] d = 4 -> "4" [] d = 5 -> "5" [] d = 6 -> "6" [] d = 7 -> "7"
    [] d = 8 -> "8" [] d = 9 -> "9"

AllDigits(cs) == \A i \in 1..Len(cs) : cs[i] \in Digit

StripSign(cs) ==
  IF Len(cs) > 0 /\ cs[1] \in {"+", "-"} THEN Tail(cs) ELSE cs

RECURSIVE DigitsValue(_)
DigitsValue(cs) ==
  IF cs = <<>> THEN 0
  ELSE 10 * DigitsValue(SubSeq(cs, 1, Len(cs) - 1)) + DigitVal(cs[Len(cs)])

\* The integer an integer-shaped string denotes.
ParseInt(cs) ==
  IF Len(cs) > 0 /\ cs[1] = "-" THEN 0 - DigitsValue(Tail(cs))
  ELSE DigitsValue(StripSign(cs))

RECURSIVE NatToChars(_)
NatToChars(k) ==
  IF k < 10 THEN <<DigitChar(k)>>
  ELSE NatToChars(k \div 10) \o <<DigitChar(k % 10)>>

\* String(n) of an integer.
NumToChars(k) == IF k < 0 THEN <<"-">> \o NatToChars(0 - k) ELSE NatToChars(k)

\* The validators' string view of a field value.
toString(v) ==
  CASE v.t = "undefined" -> <<>>
    [] v.t = "number" -> NumToChars(v.n)
    [] v.t = "boolean" -> IF v.n = 1 THEN <<"t", "r", "u", "e">>
                                     ELSE <<"f", "a", "l", "s", "e">>
    [] v.t = "string" -> v.s

\* isInt: ^[-+]?[0-9]+$
isInt(cs) == LET b == StripSign(cs) IN Len(b) > 0 /\ AllDigits(b)

\* isNumeric: ^[+-]?([0-9]*[.])?[0-9]+$
isNumeric(cs) ==
  LET b == StripSign(cs) IN
    \/ Len(b) > 0 /\ AllDigits(b)
    \/ \E k \in 1..Len(b) :
         /\ b[k] = "."
         /\ AllDigits(SubSeq(b, 1, k - 1))
         /\ k < Len(b)
         /\ AllDigits(SubSeq(b, k + 1, Len(b)))

notEmpty(cs) == Len(cs) > 0

isBoolean(cs) ==
  cs \in {<<"t", "r", "u", "e">>, <<"f", "a", "l", "s", "e">>, <<"1">>, <<"0">>}

\* custom((value) => value > 0) on the raw value; a string that does not
\* spell a number compares as NaN, the empty string as 0.
GreaterThanZero(v) ==
  CASE v.t = "number" -> v.n > 0
    [] v.t = "boolean" -> v.n > 0
    [] v.t = "undefined" -> FALSE
    [] v.t = "string" -> isInt(v.s) /\ ParseInt(v.s) > 0

-----------------------------------------------------------------------------
(* Products and responses.                                                 *)

NoProduct == [id |-> 0, name |-> <<>>, price |-> 0, availability |-> FALSE]

NoResponse ==
  [status |-> 0, kind |-> "none", data |-> NoProduct, list |-> {}, errors |-> <<>>]

Response(status, kind, data, list, errors) ==
  [status |-> status, kind |-> kind, data |-> data, list |-> list, errors |-> errors]

NoBody == [name |-> JsUndefined, price |-> JsUndefined, availability |-> JsUndefined]

NoRequest ==
  [method |-> "NONE", path |-> "/", id |-> <<>>, body |-> NoBody, origin |-> JsUndefined]

-----------------------------------------------------------------------------
(* server.ts: the CORS policy and the global middleware order.             *)

\* Variant: any origin is let through.
OriginAllowedAny(origin, url) == TRUE

\* origin === process.env.FRONTEND_URL
OriginAllowed(origin, url) == origin = url

\* server.use(...) in registration order, up to the product router.
GlobalMiddleware == <<"cors", "express.json", "morgan", "router">>

-----------------------------------------------------------------------------
(* router.ts: validation chains.                                           *)

Check(check, msg) == [check |-> check, msg |-> msg]

NoChain == [location |-> "none", field |-> "none", checks |-> <<>>]

\* Variant: the id rule written with isNumeric.
ParamIdChainNumeric ==
  [location |-> "params", field |-> "id",
   checks |-> <<Check("isNumeric", "Valor no admitido")>>]

ParamIdChain ==
  [location |-> "params", field |-> "id",
   checks |-> <<Check("isInt", "Valor no admitido")>>]

\* Variant: the name rule written with isNumeric.
BodyNameChainNumeric ==
  [location |-> "body", field |-> "name",
   checks |-> <<Check("isNumeric", "Debes ingresar un nombre de producto")>>]

BodyNameChain ==
  [location |-> "body", field |-> "name",
   checks |-> <<Check("notEmpty", "Debes ingresar un nombre de producto")>>]

\* Variant: the price rule without its custom (value > 0) check.
BodyPriceChainNoCustom ==
  [location |-> "body", field |-> "price",
   checks |-> <<Check("isNumeric", "Valor no admitido"),
                Check("notEmpty", "Debes ingresar un precio de producto")>>]

BodyPriceChain ==
  [location |-> "body", field |-> "price",
   checks |-> <<Check("isNumeric", "Valor no admitido"),
                Check("notEmpty", "Debes ingresar un precio de producto"),
                Check("custom", "Valor no admitido")>>]

BodyAvailabilityChain ==
  [location |-> "body", field |-> "availability",
   checks |-> <<Check("isBoolean", "Valor de disponibilidad no valido")>>]

Rule(chain) == [kind |-> "rule", name |-> chain.field, chain |-> chain]
Fn(name) == [kind |-> "fn", name |-> name, chain |-> NoChain]

-----------------------------------------------------------------------------
(* router.ts: the route table, in registration order.                      *)

ListRoute ==
  [method |-> "GET", path |-> "/", stack |-> <<Fn("getProducts")>>]

\* Variant: GET /:id bound to the list handler.
GetByIdRouteLists ==
  [method |-> "GET", path |-> "/:id",
   stack |-> <<Rule(ParamIdChain), Fn("handleInputErrors"), Fn("getProducts")>>]

GetByIdRoute ==
  [method |-> "GET", path |-> "/:id",
   stack |-> <<Rule(ParamIdChain), Fn("handleInputErrors"), Fn("getProductById")>>]

CreateRoute ==
  [method |-> "POST", path |-> "/",
   stack |-> <<Rule(BodyNameChain), Rule(BodyPriceChain),
               Fn("handleInputErrors"), Fn("createProduct")>>]

\* Variant: PUT /:id without the availability rule.
UpdateRouteNoAvailability ==
  [method |-> "PUT", path |-> "/:id",
   stack |-> <<Rule(ParamIdChain), Rule(BodyNameChain), Rule(BodyPriceChain),
               Fn("handleInputErrors"), Fn("updateProduct")>>]

\* Variant: PUT /:id without the price rule.
UpdateRouteNoPrice ==
  [method |-> "PUT", path |-> "/:id",
   stack |-> <<Rule(ParamIdChain), Rule(BodyNameChain), Rule(BodyAvailabilityChain),
               Fn("handleInputErrors"), Fn("updateProduct")>>]

UpdateRoute ==
  [method |-> "PUT", path |-> "/:id",
   stack |-> <<Rule(ParamIdChain), Rule(BodyNameChain), Rule(BodyPriceChain),
               Rule(BodyAvailabilityChain),
               Fn("handleInputErrors"), Fn("updateProduct")>>]

\* Variant: the first PATCH /:id bound to the delete handler.
PatchRouteDeletes ==
  [method |-> "PATCH", path |-> "/:id",
   stack |-> <<Rule(ParamIdChain), Fn("handleInputErrors"), Fn("deleteProduct")>>]

PatchRoute ==
  [method |-> "PATCH", path |-> "/:id",
   stack |-> <<Rule(ParamIdChain), Fn("handleInputErrors"), Fn("updateAvailability")>>]

PatchRouteAgain ==
  [method |-> "PATCH", path |-> "/:id",
   stack |-> <<Rule(ParamIdChain), Fn("handleInputErrors"), Fn("updateAvailability")>>]

\* Variant: DELETE /:id without handleInputErrors.
DeleteRouteUnvalidated ==
  [method |-> "DELETE", path |-> "/:id",
   stack |-> <<Rule(ParamIdChain), Fn("deleteProduct")>>]

DeleteRoute ==
  [method |-> "DELETE", path |-> "/:id",
   stack |-> <<Rule(ParamIdChain), Fn("handleInputErrors"), Fn("deleteProduct")>>]

Routes ==
  <<ListRoute, GetByIdRoute, CreateRoute, UpdateRoute,
    PatchRoute, PatchRouteAgain, DeleteRoute>>

Handlers ==
  {"getProducts", "getProductById", "createProduct", "updateProduct",
   "updateAvailability", "deleteProduct"}

-----------------------------------------------------------------------------
(* Evaluation of a validation chain on a request.                          *)

FieldValue(r, chain) ==
  IF chain.location = "params" THEN JsStr(r.id)
  ELSE CASE chain.field = "name" -> r.body.name
         [] chain.field = "price" -> r.body.price
         [] chain.field = "availability" -> r.body.availability

CheckPasses(check, v) ==
  CASE check = "isInt" -> isInt(toString(v))
    [] check = "isNumeric" -> isNumeric(toString(v))
    [] check = "notEmpty" -> notEmpty(toString(v))
    [] check = "isBoolean" -> isBoolean(toString(v))
    [] check = "custom" -> GreaterThanZero(v)

\* Every failing check of the chain adds one error, in order (no bail).
RECURSIVE ChainErrors(_, _, _)
ChainErrors(r, chain, i) ==
  IF i > Len(chain.checks) THEN <<>>
  ELSE (IF CheckPasses(chain.checks[i].check, FieldValue(r, chain))
        THEN <<>>
        ELSE <<[param |-> chain.field, location |-> chain.location,
                msg |-> chain.checks[i].msg]>>)
       \o ChainErrors(r, chain, i + 1)

-----------------------------------------------------------------------------
(* The product handlers and handleInputErrors.  A handler result carries   *)
(* the response and the store after the handler's single store call.       *)

Outcome(response, st, nid) == [res |-> response, store |-> st, nextId |-> nid]

StoreError(st, nid) ==
  Outcome(Response(500, "error", NoProduct, {}, <<>>), st, nid)

NotFound(st, nid) ==
  Outcome(Response(404, "error", NoProduct, {}, <<>>), st, nid)

\* findByPk
Found(st, cs) == {p \in st : p.id = ParseInt(cs)}

\* The value a numeric column keeps of a validated price.
ToNumber(v) == IF v.t = "string" THEN ParseInt(v.s) ELSE v.n

\* The value a boolean column keeps of a validated availability.
ToBoolean(v) ==
  IF v.t = "string" THEN v.s \in {<<"t", "r", "u", "e">>, <<"1">>} ELSE v.n = 1

getProducts(r, st, nid) ==
  Outcome(Response(200, "list", NoProduct, st, <<>>), st, nid)

getProductById(r, st, nid) ==
  IF Found(st, r.id) = {} THEN NotFound(st, nid)
  ELSE LET p == CHOOSE q \in Found(st, r.id) : TRUE IN
         Outcome(Response(200, "product", p, {}, <<>>), st, nid)

createProduct(r, st, nid) ==
  LET p == [id |-> nid, name |-> toString(r.body.name),
            price |-> ToNumber(r.body.price), availability |-> TRUE] IN
    Outcome(Response(201, "product", p, {}, <<>>), st \cup {p}, nid + 1)

updateProduct(r, st, nid) ==
  IF Found(st, r.id) = {} THEN NotFound(st, nid)
  ELSE LET p == CHOOSE q \in Found(st, r.id) : TRUE
           u == [id |-> p.id, name |-> toString(r.body.name),
                 price |-> ToNumber(r.body.price),
                 availability |-> ToBoolean(r.body.availability)] IN
         Outcome(Response(200, "product", u, {}, <<>>), (st \ {p}) \cup {u}, nid)

updateAvailability(r, st, nid) ==
  IF Found(st, r.id) = {} THEN NotFound(st, nid)
  ELSE LET p == CHOOSE q \in Found(st, r.id) : TRUE
           u == [p EXCEPT !.availability = ~p.availability] IN
         Outcome(Response(200, "product", u, {}, <<>>), (st \ {p}) \cup {u}, nid)

deleteProduct(r, st, nid) ==
  IF Found(st, r.id) = {} THEN NotFound(st, nid)
  ELSE LET p == CHOOSE q \in Found(st, r.id) : TRUE IN
         Outcome(Response(200, "message", NoProduct, {}, <<>>), st \ {p}, nid)

\* One handler call; every handler answers 500 when its store call fails.
Handle(name, r, st, nid, ready) ==
  IF ~ready THEN StoreError(st, nid)
  ELSE CASE name = "getProducts" -> getProducts(r, st, nid)
         [] name = "getProductById" -> getProductById(r, st, nid)
         [] name = "createProduct" -> createProduct(r, st, nid)
         [] name = "updateProduct" -> updateProduct(r, st, nid)
         [] name = "updateAvailability" -> updateAvailability(r, st, nid)
         [] name = "deleteProduct" -> deleteProduct(r, st, nid)

\* handleInputErrors: 400 with the collected errors, or next().
handleInputErrors(errors) ==
  IF errors # <<>> THEN Response(400, "errors", NoProduct, {}, errors)
  ELSE NoResponse

-----------------------------------------------------------------------------
(* Express dispatch: a context threads the request through the stacks.     *)
(* ended = a response was sent; a stack that runs off its end falls        *)
(* through to the next matching route.                                     *)

Context(st, nid, cl) ==
  [store |-> st, nextId |-> nid, res |-> NoResponse, errors |-> <<>>,
   calls |-> cl, ended |-> FALSE]

RECURSIVE RunStack(_, _, _, _, _)
RunStack(stack, i, r, ready, c) ==
  IF c.ended \/ i > Len(stack) THEN c
  ELSE LET step == stack[i] IN
    IF step.kind = "rule"
    THEN RunStack(stack, i + 1, r, ready,
           [c EXCEPT !.errors = @ \o ChainErrors(r, step.chain, 1),
                     !.calls = Append(@, step.chain.field)])
    ELSE IF step.name = "handleInputErrors"
    THEN LET answer == handleInputErrors(c.errors) IN
           RunStack(stack, i + 1, r, ready,
             [c EXCEPT !.calls = Append(@, step.name),
                       !.res = answer,
                       !.ended = (answer.status # 0)])
    ELSE LET o == Handle(step.name, r, c.store, c.nextId, ready) IN
           [c EXCEPT !.calls = Append(@, step.name),
                     !.res = o.res, !.store = o.store, !.nextId = o.nextId,
                     !.ended = TRUE]

Matches(route, r) == route.method = r.method /\ route.path = r.path

RECURSIVE RunRouter(_, _, _, _, _)
RunRouter(routes, i, r, ready, c) ==
  IF c.ended THEN c
  ELSE IF i > Len(routes)
  THEN [c EXCEPT !.res = Response(404, "error", NoProduct, {}, <<>>), !.ended = TRUE]
  ELSE IF Matches(routes[i], r)
  THEN RunRouter(routes, i + 1, r, ready,
         RunStack(routes[i].stack, 1, r, ready, [c EXCEPT !.errors = <<>>]))
  ELSE RunRouter(routes, i + 1, r, ready, c)

\* The whole pipeline of one request: cors, express.json, morgan, router.
\* A rejected origin goes to the error handler and skips everything else.
Serve(r, url, ready, st, nid) ==
  IF ~OriginAllowed(r.origin, url)
  THEN [Context(st, nid, <<GlobalMiddleware[1]>>) EXCEPT
          !.res = Response(500, "cors", NoProduct, {}, <<>>), !.ended = TRUE]
  ELSE RunRouter(Routes, 1, r, ready, Context(st, nid, GlobalMiddleware))

-----------------------------------------------------------------------------
(* Inputs.                                                                 *)

FrontendUrls == {JsUndefined, JsStr(<<"f">>)}

Origins == {JsUndefined, JsStr(<<"f">>), JsStr(<<"e">>)}

\* Path values of :id, by what they are: decimal integers (ids the store
\* may hold, and two it never holds) and texts that are no integer.
IntegerPathIds ==
  {NumToChars(i) : i \in 1..MaxProducts} \cup {<<"1", "0">>, <<"-", "1">>}

NonIntegerPathIds == {<<"x">>, <<"1", ".", "5">>}

PathIds == IntegerPathIds \cup NonIntegerPathIds

\* Body fields, by what they are.
ValidNames == {JsStr(<<"A">>)}

InvalidNames == {JsUndefined, JsStr(<<>>)}

Names == ValidNames \cup InvalidNames

ValidPrices == {JsNum(1), JsNum(2), JsStr(<<"2">>)}

InvalidPrices ==
  {JsUndefined, JsNum(0 - 1), JsNum(0), JsStr(<<>>), JsStr(<<"a">>)}

Prices == ValidPrices \cup InvalidPrices

ValidAvailabilities == {JsBool(TRUE), JsBool(FALSE)}

InvalidAvailabilities == {JsUndefined, JsStr(<<"x">>)}

Availabilities == ValidAvailabilities \cup InvalidAvailabilities

Request(method, path, id, body, origin) ==
  [method |-> method, path |-> path, id |-> id, body |-> body, origin |-> origin]

-----------------------------------------------------------------------------
(* State machine.                                                          *)

Init ==
  /\ frontendUrl \in FrontendUrls
  /\ proc = "starting"
  /\ dbFailure = "none"
  /\ dbReady = FALSE
  /\ logged = FALSE
  /\ store = {}
  /\ nextId = 1
  /\ req = NoRequest
  /\ res = NoResponse
  /\ calls = <<>>

\* connectDB(): try { await db.authenticate(); db.sync() } catch { log }.
\* db.sync() is not awaited: its rejection escapes the try block as an
\* unhandled rejection, which the runtime either reports or dies of.
ConnectDB ==
  /\ proc = "starting"
  /\ \E failure \in {"none", "authenticate", "sync"} :
       /\ dbFailure' = failure
       /\ dbReady' = (failure = "none")
       /\ logged' = (failure = "authenticate")
       /\ IF failure = "sync"
          THEN proc' \in {"running", "crashed"}
          ELSE proc' = "running"
  /\ UNCHANGED <<frontendUrl, store, nextId, req, res, calls>>

\* The server is up and no request is being served.
Idle == proc = "running" /\ req = NoRequest

\* One request, from its arrival to the response: the global middleware,
\* the matching route's validation and its handler with its store call.
Receive(r) ==
  /\ \E c \in {Serve(r, frontendUrl, dbReady, store, nextId)} :
       /\ store' = c.store
       /\ nextId' = c.nextId
       /\ res' = c.res
       /\ calls' = c.calls
  /\ req' = r
  /\ UNCHANGED <<frontendUrl, proc, dbFailure, dbReady, logged>>

ListProducts ==
  /\ Idle
  /\ \E o \in Origins : Receive(Request("GET", "/", <<>>, NoBody, o))

GetProduct ==
  /\ Idle
  /\ \E o \in Origins, id \in PathIds : Receive(Request("GET", "/:id", id, NoBody, o))

CreateProduct ==
  /\ Idle
  /\ nextId <= MaxProducts
  /\ \E o \in Origins, n \in Names, p \in Prices :
       Receive(Request("POST", "/", <<>>,
                       [name |-> n, price |-> p, availability |-> JsUndefined], o))

UpdateProduct ==
  /\ Idle
  /\ \E o \in Origins, id \in PathIds, n \in Names, p \in Prices, a \in Availabilities :
       Receive(Request("PUT", "/:id", id,
                       [name |-> n, price |-> p, availability |-> a], o))

PatchAvailability ==
  /\ Idle
  /\ \E o \in Origins, id \in PathIds : Receive(Request("PATCH", "/:id", id, NoBody, o))

DeleteProduct ==
  /\ Idle
  /\ \E o \in Origins, id \in PathIds : Receive(Request("DELETE", "/:id", id, NoBody, o))

\* The response has gone out; the per-request objects are dropped.
Complete ==
  /\ req # NoRequest
  /\ req' = NoRequest
  /\ res' = NoResponse
  /\ calls' = <<>>
  /\ UNCHANGED <<frontendUrl, proc, dbFailure, dbReady, logged, store, nextId>>

Next ==
  \/ ConnectDB
  \/ ListProducts
  \/ GetProduct
  \/ CreateProduct
  \/ UpdateProduct
  \/ PatchAvailability
  \/ DeleteProduct
  \/ Complete

Spec == Init /\ [][Next]_vars

-----------------------------------------------------------------------------
(* Vocabulary of the properties.                                           *)

Invoked(cl, name) == \E i \in 1..Len(cl) : cl[i] = name

Count(cl, name) == Cardinality({i \in 1..Len(cl) : cl[i] = name})

NoHandlerInvoked(cl) == \A h \in Handlers : ~Invoked(cl, h)

\* The products of a store whose id the path value spells.
Addressed(st, cs) == {p \in st : NumToChars(p.id) = cs}

\* The number a valid price spells.
Spelled(v) ==
  IF v.t = "number" THEN v.n
  ELSE CHOOSE k \in 0..9 : NumToChars(k) = v.s

\* A request was served in this step and got as far as the product router.
Routed == req' # NoRequest /\ Invoked(calls', "router")

-----------------------------------------------------------------------------
\* C1: a request to GET, PUT, PATCH or DELETE /:id that reaches the router
\* with a path id that is no integer is answered 400, no handler is invoked
\* and the store is unchanged.
C1_NonIntegerIdRejected ==
  [][(Routed /\ req'.path = "/:id" /\ req'.id \in NonIntegerPathIds)
       => /\ res'.status = 400
          /\ NoHandlerInvoked(calls')
          /\ store' = store
          /\ nextId' = nextId]_vars

C1_Witness ==
  /\ req.method = "PUT"
  /\ req.id \in NonIntegerPathIds
  /\ req.body.name \in ValidNames
  /\ req.body.price \in ValidPrices
  /\ req.body.availability \in ValidAvailabilities
  /\ Invoked(calls, "router")
  /\ res.status = 400
  /\ store # {}

\* C2: with the store connected, get-by-id, full update with a valid body,
\* patch-availability and delete of an integer id that no product of the
\* store has are answered 404 and leave the store unchanged.
C2_AbsentIdNotFound ==
  [][(/\ Routed
      /\ dbReady
      /\ req'.path = "/:id"
      /\ req'.id \in IntegerPathIds
      /\ Addressed(store, req'.id) = {}
      /\ req'.method = "PUT" =>
           /\ req'.body.name \in ValidNames
           /\ req'.body.price \in ValidPrices
           /\ req'.body.availability \in ValidAvailabilities)
       => /\ res'.status = 404
          /\ store' = store
          /\ nextId' = nextId]_vars

C2_Witness ==
  /\ req.method = "GET"
  /\ req.id = <<"1", "0">>
  /\ dbReady
  /\ store # {}
  /\ res.status = 404

\* C5: a create request that reaches the router with a price that is <= 0,
\* not numeric, missing or empty is answered 400, createProduct is not
\* invoked and no product is added.
C5_BadPriceCreateRejected ==
  [][(Routed /\ req'.method = "POST" /\ req'.body.price \in InvalidPrices)
       => /\ res'.status = 400
          /\ res'.kind = "errors"
          /\ ~Invoked(calls', "createProduct")
          /\ store' = store
          /\ nextId' = nextId]_vars

C5_Witness ==
  /\ req.method = "POST"
  /\ req.body.name \in ValidNames
  /\ req.body.price = JsNum(0 - 1)
  /\ Invoked(calls, "router")
  /\ res.status = 400

\* C6: a full update that reaches the router and omits name, price or
\* availability is answered 400, updateProduct is not invoked and the store
\* (the target product included) is unchanged.
C6_UpdateNeedsAllFields ==
  [][(/\ Routed
      /\ req'.method = "PUT"
      /\ \/ req'.body.name = JsUndefined
         \/ req'.body.price = JsUndefined
         \/ req'.body.availability = JsUndefined)
       => /\ res'.status = 400
          /\ res'.kind = "errors"
          /\ ~Invoked(calls', "updateProduct")
          /\ store' = store
          /\ nextId' = nextId]_vars

C6_Witness ==
  /\ req.method = "PUT"
  /\ req.id \in IntegerPathIds
  /\ Addressed(store, req.id) # {}
  /\ req.body.name \in ValidNames
  /\ req.body.price \in ValidPrices
  /\ req.body.availability = JsUndefined
  /\ Invoked(calls, "router")
  /\ res.status = 400

\* C7: every product held in the store has price > 0, whatever requests
\* have been served.
C7_StoredPricePositive == \A p \in store : p.price > 0

C7_Witness ==
  /\ req.method = "PUT"
  /\ res.status = 200
  /\ res.data \in store
  /\ res.data.price = 1
  /\ Cardinality(store) > 1

\* C8: a request whose origin is not exactly the configured FRONTEND_URL is
\* answered with the CORS error by the first middleware; express.json, the
\* router and every handler are skipped and the store is unchanged.
C8_ForeignOriginBlocked ==
  [][(req' # NoRequest /\ req'.origin # frontendUrl)
       => /\ res'.status = 500
          /\ res'.kind = "cors"
          /\ calls' = <<"cors">>
          /\ store' = store
          /\ nextId' = nextId]_vars

C8_Witness ==
  /\ req.method = "DELETE"
  /\ frontendUrl = JsStr(<<"f">>)
  /\ req.origin = JsStr(<<"e">>)
  /\ Addressed(store, req.id) # {}
  /\ res.kind = "cors"

\* C3: with the store connected, a create with a non-empty name and a
\* numeric price > 0 that reaches the router is answered 201 with a product
\* that has a fresh store-assigned id, the input name, the input price (> 0)
\* and availability true, and exactly that product is added to the store.
C3_ValidCreate ==
  [][(/\ Routed
      /\ dbReady
      /\ req'.method = "POST"
      /\ req'.body.name \in ValidNames
      /\ req'.body.price \in ValidPrices)
       => /\ res'.status = 201
          /\ res'.kind = "product"
          /\ res'.data.id = nextId
          /\ \A p \in store : p.id # res'.data.id
          /\ res'.data.name = req'.body.name.s
          /\ res'.data.price = Spelled(req'.body.price)
          /\ res'.data.price > 0
          /\ res'.data.availability = TRUE
          /\ store' = store \cup {res'.data}
          /\ Cardinality(store') = Cardinality(store) + 1]_vars

C3_Witness ==
  /\ req.method = "POST"
  /\ req.body.price = JsNum(2)
  /\ res.status = 201
  /\ res.data \in store
  /\ res.data.id = 2
  /\ Cardinality(store) = 1

\* C4: with the store connected, a PATCH of an existing product that reaches
\* the router is answered 200 with the product's availability negated, the
\* store holds the negated product, updateAvailability ran once although
\* the route is registered twice, and the same PATCH served again restores
\* the store.
C4_PatchFlipsOnce ==
  [][(/\ Routed
      /\ dbReady
      /\ req'.method = "PATCH"
      /\ Addressed(store, req'.id) # {})
       => LET p == CHOOSE q \in Addressed(store, req'.id) : TRUE IN
            /\ res'.status = 200
            /\ res'.data = [p EXCEPT !.availability = ~p.availability]
            /\ store' = (store \ {p}) \cup {res'.data}
            /\ Count(calls', "updateAvailability") = 1
            /\ Serve(req', frontendUrl, dbReady, store', nextId').store = store]_vars

C4_Witness ==
  /\ req.method = "PATCH"
  /\ res.status = 200
  /\ res.data.availability = TRUE
  /\ res.data \in store
  /\ Count(calls, "updateAvailability") = 1

-----------------------------------------------------------------------------
(* C9.                                                                     *)

\* Some validation rule of the route the request matches fails on it.
RuleFails(r) ==
  \/ r.path = "/:id" /\ r.id \in NonIntegerPathIds
  \/ r.method \in {"POST", "PUT"} /\ r.body.name \in InvalidNames
  \/ r.method \in {"POST", "PUT"} /\ r.body.price \in InvalidPrices
  \/ r.method = "PUT" /\ r.body.availability \in InvalidAvailabilities

\* handleInputErrors ran right before the handler, which ends the calls.
BehindValidation(cl, h) ==
  /\ Len(cl) > 1
  /\ cl[Len(cl)] = h
  /\ cl[Len(cl) - 1] = "handleInputErrors"
  /\ Count(cl, h) = 1

\* C9 as stated: on all six routes the handler is invoked only after
\* handleInputErrors has passed.
C9_EveryHandlerBehindValidation ==
  \A h \in Handlers : Invoked(calls, h) => BehindValidation(calls, h)

\* C9 amended: on the five routes with validation rules the handler is
\* invoked only after handleInputErrors has passed, and a failed rule gives
\* 400 with a non-empty error list and no handler call; the list route has
\* no validation middleware and getProducts is invoked directly.
C9_ValidatedRoutesBehindValidation ==
  /\ \A h \in Handlers \ {"getProducts"} :
       Invoked(calls, h) => BehindValidation(calls, h) /\ ~RuleFails(req)
  /\ (Invoked(calls, "router") /\ RuleFails(req))
       => /\ res.status = 400
          /\ res.kind = "errors"
          /\ res.errors # <<>>
          /\ \A i \in 1..Len(res.errors) :
               res.errors[i].param \in {"id", "name", "price", "availability"}
          /\ NoHandlerInvoked(calls)
  /\ Invoked(calls, "getProducts")
       => /\ ~Invoked(calls, "handleInputErrors")
          /\ calls = Append(GlobalMiddleware, "getProducts")

C9_Witness ==
  /\ req.method = "DELETE"
  /\ req.id \in NonIntegerPathIds
  /\ Invoked(calls, "handleInputErrors")
  /\ res.status = 400
  /\ res.errors # <<>>
  /\ store # {}

-----------------------------------------------------------------------------
\* C10: a failure of db.authenticate or of db.sync in connectDB is logged
\* and leaves the process running, and the requests that then reach a
\* handler are answered 500.
C10_StartupFailureLoggedAndSurvived ==
  (proc # "starting" /\ dbFailure # "none")
    => /\ logged
       /\ proc = "running"
       /\ (\E h \in Handlers : Invoked(calls, h)) => res.status = 500

====
